---------------------------- MODULE Spec2Model ----------------------------
(***************************************************************************)
(* Attendance dashboard (App component): the current Session, the list of  *)
(* saved Reports, its copy in localStorage under the key                    *)
(* 'sk_attendance_history_v2', and the remote submission of a saved Report. *)
(*                                                                         *)
(* React state is modelled as it is scheduled: a handler queues its update *)
(* of savedReports / hasLoaded (pendingReports, pendingLoaded), Render      *)
(* commits the queue, and the persist effect runs after the commit.  No     *)
(* other handler runs between a handler and the effects of its commit.      *)
(***************************************************************************)
EXTENDS Integers, Sequences, FiniteSets, TLC

VARIABLES
    storage,            \* localStorage item 'sk_attendance_history_v2'
    quota,              \* how many reports the storage area can hold
    now,                \* Date.now()
    pc,                 \* position of the React lifecycle
    savedReports,       \* committed state savedReports
    hasLoaded,          \* committed state hasLoaded
    pendingReports,     \* savedReports once the queued update is committed
    pendingLoaded,      \* hasLoaded once the queued update is committed
    selectedDate,
    selectedTeacherId,
    selectedSubject,
    selectedTimeslot,
    attendance,         \* the Session's attendance map (its content)
    attendanceRef,      \* 0: an object of the Session alone; i > 0: the very
                        \* object held by pendingReports[i].attendance
    isSavingToCloud,
    cloud,              \* the fetch of handleSaveSession: none | pending
    notes,              \* notifications raised by the latest handler
    console,            \* messages the latest callback wrote with console.error
    analyticsYear,      \* the year selected on the analysis tab
    analyticsMonth,     \* the month selected on the analysis tab, from 0
    tz,                 \* offset of the local time zone from UTC, in hours
    isExporting,        \* the flag that disables the PDF buttons
    pdf                 \* "none" or "pending": the html2canvas call of exportPDF

vars == <<storage, quota, now, pc, savedReports, hasLoaded, pendingReports,
          pendingLoaded, selectedDate, selectedTeacherId, selectedSubject,
          selectedTimeslot, attendance, attendanceRef, isSavingToCloud, cloud,
          notes, console, analyticsYear, analyticsMonth, tz,
          isExporting, pdf>>

analytics == <<analyticsYear, analyticsMonth, tz>>

exporting == <<isExporting, pdf>>

session == <<selectedDate, selectedTeacherId, selectedSubject,
             selectedTimeslot, attendance, attendanceRef>>

-----------------------------------------------------------------------------
(* Bounds of the model.                                                    *)

MaxReports == 2

MaxClock == 2

-----------------------------------------------------------------------------
(* Roster (constants.ts).                                                  *)

SUBJECTS == <<"Sains", "Bahasa Inggeris", "Matematik", "Sejarah">>

TIMESLOTS == <<"02:30 - 03:30 pm", "07:00 - 08:00 pm", "08:00 - 09:00 pm",
               "08:30 - 09:30 pm">>

TEACHERS ==
    { [id |-> "t1", name |-> "ALYSA JULIA ANAK THORNLEY"],
      [id |-> "t2", name |-> "DAYANG ERINA NATASHA BINTI ABANG ABBEHA"],
      [id |-> "t3", name |-> "DAVE BIN ASON"],
      [id |-> "t4", name |-> "FAID BIN ZULKIFLI"],
      [id |-> "t5", name |-> "GRACE ANAK KANA"],
      [id |-> "t6", name |-> "JESSICA ANAK KATANG"],
      [id |-> "t7", name |-> "MARIATI BINTI PADLAM"],
      [id |-> "t8", name |-> "MUHAMMAD AIMAN CYPRIAN BIN MUHD NIZAM"],
      [id |-> "t9", name |-> "RAFFI BIN SMAIL"],
      [id |-> "t10", name |-> "RAZELI BIN SIRAT"],
      [id |-> "t11", name |-> "REBENA BINTI ASIN"],
      [id |-> "t12", name |-> "SAHARUDDIN BIN SAPIAE"],
      [id |-> "t13", name |-> "IZWANSYAH BIN LAMUHAMMADE"] }

\* The year of each entry of RAW_PUPILS, in the order of the source.
RAW_PUPILS ==
    <<1, 1, 1,
      2, 2, 2, 2, 2, 2,
      3, 3, 3, 3, 3,
      4, 4, 4, 4,
      5, 5, 5, 5, 5,
      6, 6, 6, 6>>

\* PUPILS: the id is given by position in RAW_PUPILS (`p-${index}`, from 0);
\* the later sort by year and name changes the display order only.
PUPILS ==
    { [id |-> "p-" \o ToString(i - 1), year |-> RAW_PUPILS[i]] :
        i \in 1..Len(RAW_PUPILS) }

PupilIds == { p.id : p \in PUPILS }

-----------------------------------------------------------------------------
(* Attendance maps: functions from a set of keys to BOOLEAN.               *)

EmptyAttendance == [k \in {} |-> TRUE]

\* the names every object inherits from Object.prototype
ObjectPrototypeKeys ==
    { "constructor", "__proto__", "hasOwnProperty", "isPrototypeOf",
      "propertyIsEnumerable", "toLocaleString", "toString", "valueOf",
      "__defineGetter__", "__defineSetter__", "__lookupGetter__",
      "__lookupSetter__" }

\* prev[pupilId] read as a boolean: the own value of the key; without an own
\* key the look-up gives undefined (falsy), or for a name of Object.prototype
\* the inherited member (truthy)
IsPresent(map, pupilId) ==
    IF pupilId \in DOMAIN map THEN map[pupilId]
    ELSE pupilId \in ObjectPrototypeKeys

\* { ...map, [key]: value }
WithKey(map, key, value) ==
    [k \in DOMAIN map \cup {key} |-> IF k = key THEN value ELSE map[k]]

\* Object.values(attendance).filter(val => val).length
totalPresentOf(map) == Cardinality({ k \in DOMAIN map : map[k] })

\* a toggle that always marks the pupil present
ToggledPresent(map, pupilId) == WithKey(map, pupilId, TRUE)

\* the new object of toggleAttendance: { ...prev, [pupilId]: !prev[pupilId] }
Toggled(map, pupilId) == WithKey(map, pupilId, ~IsPresent(map, pupilId))

\* a year handler that inverts the flags of the pupils of the year
SetAllInYearInverting(map, year, present) ==
    LET ids == { p.id : p \in { q \in PUPILS : q.year = year } }
    IN  [k \in DOMAIN map \cup ids |->
            IF k \in ids THEN (IF IsPresent(map, k) THEN ~present ELSE present)
            ELSE map[k]]

\* newState of selectAllInYear / deselectAllInYear
SetAllInYear(map, year, present) ==
    LET ids == { p.id : p \in { q \in PUPILS : q.year = year } }
    IN  [k \in DOMAIN map \cup ids |-> IF k \in ids THEN present ELSE map[k]]

\* TEACHERS.find(t => t.id === selectedTeacherId)?.name || 'Tiada Guru Dipilih'
teacherNameOf(teacherId) ==
    IF \E t \in TEACHERS : t.id = teacherId
    THEN (CHOOSE t \in TEACHERS : t.id = teacherId).name
    ELSE "Tiada Guru Dipilih"


-----------------------------------------------------------------------------
(* Dates are <<year, month, day>>, the fields of the 'YYYY-MM-DD' string.   *)

\* new Date().toISOString().split('T')[0]: the UTC day the clock readings of
\* the model fall on
Today == <<2025, 3, 15>>

\* new Date().toLocaleTimeString('ms-MY'): the time of day, to the second
toLocaleTimeString(ms) == ToString((ms \div 1000) % 86400)

-----------------------------------------------------------------------------
(* The persisted blob.  kind "null": no item (getItem returns null);        *)
(* "empty": the empty string, which `if (data)` skips like null;            *)
(* "corrupt": non-empty text JSON.parse throws on; "object": JSON of a      *)
(* value that is not an array; "array": JSON of an array, items its         *)
(* elements.  A report is written as a JSON object whose attendance member  *)
(* lists the map's key/value pairs.                                         *)

NoBlob == [kind |-> "null", items |-> <<>>]

EmptyBlob == [kind |-> "empty", items |-> <<>>]

CorruptBlob == [kind |-> "corrupt", items |-> <<>>]

ObjectBlob == [kind |-> "object", items |-> <<>>]

StringifyReport(r) ==
    [r EXCEPT !.attendance = { <<k, r.attendance[k]>> : k \in DOMAIN r.attendance }]

ParseReport(j) ==
    [j EXCEPT !.attendance =
        [k \in { m[1] : m \in j.attendance } |->
            CHOOSE v \in BOOLEAN : <<k, v>> \in j.attendance]]

\* JSON.stringify(savedReports)
JSONStringify(reports) ==
    [kind |-> "array",
     items |-> [i \in 1..Len(reports) |-> StringifyReport(reports[i])]]

\* JSON.parse(data), for data that parses to an array
JSONParse(blob) == [i \in 1..Len(blob.items) |-> ParseReport(blob.items[i])]

\* What the load effect passes to setSavedReports; the state keeps its
\* initial [] when the item is missing, unparseable or not an array.
LoadedReports(blob) ==
    IF blob.kind = "array" THEN JSONParse(blob) ELSE <<>>

\* The load effect logs only in the catch of JSON.parse, which it calls for
\* a non-empty item only.
LoadLogs(blob) ==
    IF blob.kind = "corrupt" THEN {"Failed to load history"} ELSE {}

\* localStorage.setItem throws (QuotaExceededError) when the value does not
\* fit the storage area.
WriteFails(reports, q) == Len(reports) > q

-----------------------------------------------------------------------------
(* Notifications (addNotification).                                        *)

Note(message, type) == [message |-> message, type |-> type]

IncompleteNote == Note("Sila pilih Guru, Subjek, dan Slot Masa.", "error")

SavedLocallyNote == Note("Rekod disimpan secara lokal!", "info")

CloudSentNote == Note("Berjaya dihantar ke Google Sheets!", "success")

CloudFailedNote ==
    Note("Gagal simpan ke awan, tetapi disimpan di peranti.", "error")

GeneratingPdfNote == Note("Menjana PDF, sila tunggu...", "info")

PdfDoneNote == Note("PDF berjaya dimuat turun!", "success")

PdfFailedNote == Note("Gagal menjana PDF.", "error")

DeletedNote == Note("Rekod telah dipadam daripada sejarah.", "info")

ClearedNote == Note("Semua rekod sejarah telah dikosongkan.", "info")

SelectedYearNote(year) ==
    Note("Semua murid Tahun " \o ToString(year) \o " ditanda hadir.", "info")

DeselectedYearNote(year) ==
    Note("Kehadiran Tahun " \o ToString(year) \o " telah diset semula.", "info")

-----------------------------------------------------------------------------
(* Inputs.                                                                  *)

DateInputs == { Today, <<2024, 12, 31>> }

TeacherInputs == { "", "t1" }

SubjectInputs == { "", "Matematik" }

TimeslotInputs == { "", "02:30 - 03:30 pm" }

ToggleInputs == { "p-0" }

YearInputs == { 1 }

IdInputs == { ToString(t) : t \in 0..MaxClock }

QuotaInputs == { 1, MaxReports }

\* A report written by an earlier run of the program.
EarlierReport ==
    [id |-> "0", date |-> <<2024, 12, 31>>, timestamp |-> "0",
     teacherId |-> "t1", teacherName |-> teacherNameOf("t1"),
     subject |-> "Matematik", timeslot |-> "02:30 - 03:30 pm",
     attendance |-> WithKey(EmptyAttendance, "p-0", TRUE),
     totalPresent |-> 1]

\* An array element that the program did not write: a teacher that is not
\* in the roster, and a totalPresent that is not the count of its map.
ForeignReport ==
    [EarlierReport EXCEPT !.teacherId = "t99", !.teacherName = "GURU LAMA",
                          !.totalPresent = 28]

BlobInputs ==
    { NoBlob, EmptyBlob, CorruptBlob, ObjectBlob, JSONStringify(<<>>),
      JSONStringify(<<EarlierReport>>) }

SessionBlobInputs ==
    { JSONStringify(<<EarlierReport>>), JSONStringify(<<ForeignReport>>) }

-----------------------------------------------------------------------------
(* State after the first render of App.                                    *)

InitFrom(blobs) ==
    /\ storage \in blobs
    /\ quota \in QuotaInputs
    /\ now = 1
    /\ pc = "mount"
    /\ savedReports = <<>>
    /\ hasLoaded = FALSE
    /\ pendingReports = <<>>
    /\ pendingLoaded = FALSE
    /\ selectedDate = Today
    /\ selectedTeacherId = ""
    /\ selectedSubject = ""
    /\ selectedTimeslot = ""
    /\ attendance = EmptyAttendance
    /\ attendanceRef = 0
    /\ isSavingToCloud = FALSE
    /\ cloud = "none"
    /\ notes = <<>>
    /\ console = {}
    /\ analyticsYear = Today[1]
    /\ analyticsMonth = Today[2] - 1
    /\ isExporting = FALSE
    /\ pdf = "none"
    /\ tz = 8

Init == InitFrom(BlobInputs)


-----------------------------------------------------------------------------
(* Effects and the commit of queued state.                                 *)

\* useEffect(..., []): the load effect of the first commit.
LoadEffect ==
    /\ pc = "mount"
    /\ pendingReports' =
         IF storage.kind = "array" THEN JSONParse(storage) ELSE pendingReports
    /\ console' = LoadLogs(storage)
    /\ pendingLoaded' = TRUE
    /\ pc' = "mount_persist"
    /\ UNCHANGED <<storage, quota, now, savedReports, hasLoaded, session,
                   isSavingToCloud, cloud, notes>>
    /\ UNCHANGED analytics
    /\ UNCHANGED exporting

\* A commit: the queued updates become the state the effects see.
Render ==
    /\ pc = "render"
    /\ savedReports' = pendingReports
    /\ hasLoaded' = pendingLoaded
    /\ pc' = "effect"
    /\ UNCHANGED <<storage, quota, now, pendingReports, pendingLoaded, session,
                   isSavingToCloud, cloud, notes, console>>
    /\ UNCHANGED analytics
    /\ UNCHANGED exporting

\* The effect writes nothing when the list is empty.
PersistEffectSkipEmpty ==
    /\ pc \in {"mount_persist", "effect"}
    /\ IF hasLoaded /\ ~WriteFails(savedReports, quota) /\ savedReports # <<>>
       THEN storage' = JSONStringify(savedReports)
       ELSE storage' = storage
    /\ pc' = IF hasLoaded /\ WriteFails(savedReports, quota) THEN "crashed"
             ELSE IF pc = "mount_persist" THEN "render"
             ELSE "idle"
    /\ UNCHANGED <<quota, now, savedReports, hasLoaded, pendingReports,
                   pendingLoaded, session, isSavingToCloud, cloud, notes,
                   console>>
    /\ UNCHANGED analytics
    /\ UNCHANGED exporting

\* a persist effect without the hasLoaded test
PersistEffectUngated ==
    /\ pc \in {"mount_persist", "effect"}
    /\ IF ~WriteFails(savedReports, quota)
       THEN storage' = JSONStringify(savedReports)
       ELSE storage' = storage
    /\ pc' = IF WriteFails(savedReports, quota) THEN "crashed"
             ELSE IF pc = "mount_persist" THEN "render"
             ELSE "idle"
    /\ UNCHANGED <<quota, now, savedReports, hasLoaded, pendingReports,
                   pendingLoaded, session, isSavingToCloud, cloud, notes,
                   console>>
    /\ UNCHANGED analytics
    /\ UNCHANGED exporting

\* useEffect(..., [savedReports, hasLoaded]): the persist effect, run with
\* the state of the commit it belongs to.  A throw of setItem is caught by
\* nothing: it leaves the effect as an uncaught error and React unmounts App.
PersistEffect ==
    /\ pc \in {"mount_persist", "effect"}
    /\ IF hasLoaded /\ ~WriteFails(savedReports, quota)
       THEN storage' = JSONStringify(savedReports)
       ELSE storage' = storage
    /\ pc' = IF hasLoaded /\ WriteFails(savedReports, quota) THEN "crashed"
             ELSE IF pc = "mount_persist" THEN "render"
             ELSE "idle"
    /\ UNCHANGED <<quota, now, savedReports, hasLoaded, pendingReports,
                   pendingLoaded, session, isSavingToCloud, cloud, notes,
                   console>>
    /\ UNCHANGED analytics
    /\ UNCHANGED exporting

-----------------------------------------------------------------------------
(* Session handlers.                                                       *)

setSelectedDate(value) ==
    /\ pc = "idle"
    /\ console' = {}
    /\ selectedDate' = value
    /\ notes' = <<>>
    /\ UNCHANGED <<storage, quota, now, pc, savedReports, hasLoaded,
                   pendingReports, pendingLoaded, selectedTeacherId,
                   selectedSubject, selectedTimeslot, attendance, attendanceRef,
                   isSavingToCloud, cloud>>
    /\ UNCHANGED analytics
    /\ UNCHANGED exporting

setSelectedTeacherId(value) ==
    /\ pc = "idle"
    /\ console' = {}
    /\ selectedTeacherId' = value
    /\ notes' = <<>>
    /\ UNCHANGED <<storage, quota, now, pc, savedReports, hasLoaded,
                   pendingReports, pendingLoaded, selectedDate,
                   selectedSubject, selectedTimeslot, attendance, attendanceRef,
                   isSavingToCloud, cloud>>
    /\ UNCHANGED analytics
    /\ UNCHANGED exporting

setSelectedSubject(value) ==
    /\ pc = "idle"
    /\ console' = {}
    /\ selectedSubject' = value
    /\ notes' = <<>>
    /\ UNCHANGED <<storage, quota, now, pc, savedReports, hasLoaded,
                   pendingReports, pendingLoaded, selectedDate,
                   selectedTeacherId, selectedTimeslot, attendance,
                   attendanceRef, isSavingToCloud, cloud>>
    /\ UNCHANGED analytics
    /\ UNCHANGED exporting

setSelectedTimeslot(value) ==
    /\ pc = "idle"
    /\ console' = {}
    /\ selectedTimeslot' = value
    /\ notes' = <<>>
    /\ UNCHANGED <<storage, quota, now, pc, savedReports, hasLoaded,
                   pendingReports, pendingLoaded, selectedDate,
                   selectedTeacherId, selectedSubject, attendance,
                   attendanceRef, isSavingToCloud, cloud>>
    /\ UNCHANGED analytics
    /\ UNCHANGED exporting

\* The handler writes through the object the Session holds: a stored Report
\* that shares the object changes with it.
toggleAttendanceInPlace(pupilId) ==
    /\ pc = "idle"
    /\ console' = {}
    /\ attendance' = Toggled(attendance, pupilId)
    /\ attendanceRef' = attendanceRef
    /\ savedReports' =
         IF attendanceRef > 0
         THEN [savedReports EXCEPT ![attendanceRef].attendance = attendance']
         ELSE savedReports
    /\ pendingReports' = savedReports'
    /\ notes' = <<>>
    /\ UNCHANGED <<storage, quota, now, pc, hasLoaded, pendingLoaded,
                   selectedDate, selectedTeacherId, selectedSubject,
                   selectedTimeslot, isSavingToCloud, cloud>>
    /\ UNCHANGED analytics
    /\ UNCHANGED exporting

\* setAttendance(prev => ({ ...prev, [pupilId]: !prev[pupilId] })): the
\* Session gets a new object, the one it held is left as it was.
toggleAttendance(pupilId) ==
    /\ pc = "idle"
    /\ console' = {}
    /\ attendance' = Toggled(attendance, pupilId)
    /\ attendanceRef' = 0
    /\ notes' = <<>>
    /\ UNCHANGED <<storage, quota, now, pc, savedReports, hasLoaded,
                   pendingReports, pendingLoaded, selectedDate,
                   selectedTeacherId, selectedSubject, selectedTimeslot,
                   isSavingToCloud, cloud>>
    /\ UNCHANGED analytics
    /\ UNCHANGED exporting

selectAllInYear(year) ==
    /\ pc = "idle"
    /\ console' = {}
    /\ attendance' = SetAllInYear(attendance, year, TRUE)
    /\ attendanceRef' = 0
    /\ notes' = <<SelectedYearNote(year)>>
    /\ UNCHANGED <<storage, quota, now, pc, savedReports, hasLoaded,
                   pendingReports, pendingLoaded, selectedDate,
                   selectedTeacherId, selectedSubject, selectedTimeslot,
                   isSavingToCloud, cloud>>
    /\ UNCHANGED analytics
    /\ UNCHANGED exporting

deselectAllInYear(year) ==
    /\ pc = "idle"
    /\ console' = {}
    /\ attendance' = SetAllInYear(attendance, year, FALSE)
    /\ attendanceRef' = 0
    /\ notes' = <<DeselectedYearNote(year)>>
    /\ UNCHANGED <<storage, quota, now, pc, savedReports, hasLoaded,
                   pendingReports, pendingLoaded, selectedDate,
                   selectedTeacherId, selectedSubject, selectedTimeslot,
                   isSavingToCloud, cloud>>
    /\ UNCHANGED analytics
    /\ UNCHANGED exporting

\* 'Lihat Perincian Rekod': the Session takes the fields of the stored Report
\* and the Report's own attendance object.
viewRecordDetails(i) ==
    /\ pc = "idle"
    /\ console' = {}
    /\ i \in 1..Len(savedReports)
    /\ selectedDate' = savedReports[i].date
    /\ selectedTeacherId' = savedReports[i].teacherId
    /\ selectedSubject' = savedReports[i].subject
    /\ selectedTimeslot' = savedReports[i].timeslot
    /\ attendance' = savedReports[i].attendance
    /\ attendanceRef' = i
    /\ notes' = <<>>
    /\ UNCHANGED <<storage, quota, now, pc, savedReports, hasLoaded,
                   pendingReports, pendingLoaded, isSavingToCloud, cloud>>
    /\ UNCHANGED analytics
    /\ UNCHANGED exporting


-----------------------------------------------------------------------------
(* Store handlers.                                                         *)

\* The ids shown in the history list
Ids(reports) == { reports[i].id : i \in 1..Len(reports) }

\* The object of savedReports[ref].attendance after the reports with `id`
\* are filtered out: its new position, or 0 when it left the list.
RefAfterDelete(reports, ref, id) ==
    IF ref = 0 \/ reports[ref].id = id
    THEN 0
    ELSE Cardinality({ i \in 1..ref : reports[i].id # id })

\* newReport of handleSaveSession
NewReport ==
    [id |-> ToString(now),
     date |-> selectedDate,
     timestamp |-> toLocaleTimeString(now),
     teacherId |-> selectedTeacherId,
     teacherName |-> teacherNameOf(selectedTeacherId),
     subject |-> selectedSubject,
     timeslot |-> selectedTimeslot,
     attendance |-> attendance,
     totalPresent |-> totalPresentOf(attendance)]

\* The validation forgets the timeslot.
SessionIncompleteNoTimeslot ==
    selectedTeacherId = "" \/ selectedSubject = ""

\* if (!selectedTeacherId || !selectedSubject || !selectedTimeslot)
SessionIncomplete ==
    selectedTeacherId = "" \/ selectedSubject = "" \/ selectedTimeslot = ""

\* The new Report is put after the stored ones.
Appended(report, prev) == prev \o <<report>>

\* setSavedReports(prev => [newReport, ...prev])
Prepended(report, prev) == <<report>> \o prev

\* handleSaveSession up to its await: the validation, the queued prepend of
\* the new Report (whose attendance is a copy, { ...attendance }) and the call
\* of fetch.  The button is disabled while isSavingToCloud.
handleSaveSession ==
    /\ pc = "idle"
    /\ console' = {}
    /\ ~isSavingToCloud
    /\ Len(savedReports) < MaxReports
    /\ IF SessionIncomplete
       THEN /\ notes' = <<IncompleteNote>>
            /\ UNCHANGED <<pc, pendingReports, attendanceRef, isSavingToCloud,
                           cloud>>
       ELSE /\ isSavingToCloud' = TRUE
            /\ pendingReports' = Prepended(NewReport, savedReports)
            /\ attendanceRef' =
                 IF attendanceRef > 0 THEN attendanceRef + 1 ELSE 0
            /\ notes' = <<SavedLocallyNote>>
            /\ cloud' = "pending"
            /\ pc' = "render"
    /\ UNCHANGED <<storage, quota, now, savedReports, hasLoaded, pendingLoaded,
                   selectedDate, selectedTeacherId, selectedSubject,
                   selectedTimeslot, attendance>>
    /\ UNCHANGED analytics
    /\ UNCHANGED exporting

\* handleSaveSession after its await, the fetch having resolved
CloudResolve ==
    /\ pc \in {"idle", "crashed"}
    /\ console' = {}
    /\ cloud = "pending"
    /\ IF pc = "idle"
       THEN notes' = <<CloudSentNote>> /\ isSavingToCloud' = FALSE
       ELSE UNCHANGED <<notes, isSavingToCloud>>
    /\ cloud' = "none"
    /\ UNCHANGED <<storage, quota, now, pc, savedReports, hasLoaded,
                   pendingReports, pendingLoaded, session>>
    /\ UNCHANGED analytics
    /\ UNCHANGED exporting

\* a catch branch that takes the Report out of the collection again
CloudRejectRollback ==
    /\ pc = "idle"
    /\ cloud = "pending"
    /\ console' = {"Cloud save failed"}
    /\ notes' = <<CloudFailedNote>>
    /\ isSavingToCloud' = FALSE
    /\ cloud' = "none"
    /\ pendingReports' = IF savedReports = <<>> THEN <<>> ELSE Tail(savedReports)
    /\ pc' = "render"
    /\ UNCHANGED <<storage, quota, now, savedReports, hasLoaded,
                   pendingLoaded, session>>
    /\ UNCHANGED analytics
    /\ UNCHANGED exporting

\* handleSaveSession after its await, the fetch having thrown
CloudReject ==
    /\ pc \in {"idle", "crashed"}
    /\ cloud = "pending"
    /\ console' = {"Cloud save failed"}
    /\ IF pc = "idle"
       THEN notes' = <<CloudFailedNote>> /\ isSavingToCloud' = FALSE
       ELSE UNCHANGED <<notes, isSavingToCloud>>
    /\ cloud' = "none"
    /\ UNCHANGED <<storage, quota, now, pc, savedReports, hasLoaded,
                   pendingReports, pendingLoaded, session>>
    /\ UNCHANGED analytics
    /\ UNCHANGED exporting

\* exportPDF(ref, filename) up to its await; the buttons that call it are
\* rendered together with the element of their ref, so ref.current is set
exportPDF ==
    /\ pc = "idle"
    /\ ~isExporting
    /\ console' = {}
    /\ isExporting' = TRUE
    /\ pdf' = "pending"
    /\ notes' = <<GeneratingPdfNote>>
    /\ UNCHANGED <<storage, quota, now, pc, savedReports, hasLoaded,
                   pendingReports, pendingLoaded, session, isSavingToCloud,
                   cloud>>
    /\ UNCHANGED analytics

\* exportPDF after its await, the canvas drawn and the file saved; after
\* the unmount of App its state updates reach no component
ExportResolve ==
    /\ pc \in {"idle", "crashed"}
    /\ pdf = "pending"
    /\ console' = {}
    /\ IF pc = "idle"
       THEN notes' = <<PdfDoneNote>> /\ isExporting' = FALSE
       ELSE UNCHANGED <<notes, isExporting>>
    /\ pdf' = "none"
    /\ UNCHANGED <<storage, quota, now, pc, savedReports, hasLoaded,
                   pendingReports, pendingLoaded, session, isSavingToCloud,
                   cloud>>
    /\ UNCHANGED analytics

\* exportPDF after its await, html2canvas or jsPDF having thrown: the catch
\* logs the error object
ExportReject ==
    /\ pc \in {"idle", "crashed"}
    /\ pdf = "pending"
    /\ console' = {"Error"}
    /\ IF pc = "idle"
       THEN notes' = <<PdfFailedNote>> /\ isExporting' = FALSE
       ELSE UNCHANGED <<notes, isExporting>>
    /\ pdf' = "none"
    /\ UNCHANGED <<storage, quota, now, pc, savedReports, hasLoaded,
                   pendingReports, pendingLoaded, session, isSavingToCloud,
                   cloud>>
    /\ UNCHANGED analytics

\* deleteFromHistory(e, id); confirmed is the answer of window.confirm
deleteFromHistory(id, confirmed) ==
    /\ pc = "idle"
    /\ console' = {}
    /\ IF confirmed
       THEN /\ pendingReports' = SelectSeq(savedReports, LAMBDA r : r.id # id)
            /\ attendanceRef' = RefAfterDelete(savedReports, attendanceRef, id)
            /\ notes' = <<DeletedNote>>
            /\ pc' = "render"
       ELSE /\ notes' = <<>>
            /\ UNCHANGED <<pc, pendingReports, attendanceRef>>
    /\ UNCHANGED <<storage, quota, now, savedReports, hasLoaded, pendingLoaded,
                   selectedDate, selectedTeacherId, selectedSubject,
                   selectedTimeslot, attendance, isSavingToCloud, cloud>>
    /\ UNCHANGED analytics
    /\ UNCHANGED exporting

\* The handler notifies but queues no update of savedReports.
handleClearHistoryNoUpdate(confirmed) ==
    /\ pc = "idle"
    /\ console' = {}
    /\ notes' = IF confirmed THEN <<ClearedNote>> ELSE <<>>
    /\ UNCHANGED <<storage, quota, now, pc, savedReports, hasLoaded,
                   pendingReports, pendingLoaded, session, isSavingToCloud,
                   cloud>>
    /\ UNCHANGED analytics
    /\ UNCHANGED exporting

\* handleClearHistory(e); confirmed is the answer of window.confirm
handleClearHistory(confirmed) ==
    /\ pc = "idle"
    /\ console' = {}
    /\ IF confirmed
       THEN /\ pendingReports' = <<>>
            /\ attendanceRef' = 0
            /\ notes' = <<ClearedNote>>
            /\ pc' = "render"
       ELSE /\ notes' = <<>>
            /\ UNCHANGED <<pc, pendingReports, attendanceRef>>
    /\ UNCHANGED <<storage, quota, now, savedReports, hasLoaded, pendingLoaded,
                   selectedDate, selectedTeacherId, selectedSubject,
                   selectedTimeslot, attendance, isSavingToCloud, cloud>>
    /\ UNCHANGED analytics
    /\ UNCHANGED exporting

-----------------------------------------------------------------------------
(* Environment.                                                            *)

\* The clock advances.
Tick ==
    /\ pc = "idle"
    /\ now < MaxClock
    /\ now' = now + 1
    /\ UNCHANGED <<storage, quota, pc, savedReports, hasLoaded, pendingReports,
                   pendingLoaded, session, isSavingToCloud, cloud, notes,
                   console>>
    /\ UNCHANGED analytics
    /\ UNCHANGED exporting

\* The page is loaded again: only localStorage survives.
Restart ==
    /\ pc \in {"idle", "crashed"}
    /\ pc' = "mount"
    /\ savedReports' = <<>>
    /\ hasLoaded' = FALSE
    /\ pendingReports' = <<>>
    /\ pendingLoaded' = FALSE
    /\ selectedDate' = Today
    /\ selectedTeacherId' = ""
    /\ selectedSubject' = ""
    /\ selectedTimeslot' = ""
    /\ attendance' = EmptyAttendance
    /\ attendanceRef' = 0
    /\ isSavingToCloud' = FALSE
    /\ cloud' = "none"
    /\ notes' = <<>>
    /\ console' = {}
    /\ analyticsYear' = Today[1]
    /\ analyticsMonth' = Today[2] - 1
    /\ isExporting' = FALSE
    /\ pdf' = "none"
    /\ UNCHANGED <<storage, quota, now, tz>>

-----------------------------------------------------------------------------
(* The life of the store: startup from any blob, save, delete, clear, the   *)
(* writes and their failure, the remote submission, the clock and restart.  *)
(* The Session saves the attendance it starts with or the one it took from  *)
(* a stored Report; its attendance handlers are exercised in SessionSpec,   *)
(* the PDF export in SavingSpec.                                            *)

Next ==
    \/ LoadEffect
    \/ Render
    \/ PersistEffect
    \/ \E value \in DateInputs : setSelectedDate(value)
    \/ \E value \in TeacherInputs : setSelectedTeacherId(value)
    \/ \E value \in SubjectInputs : setSelectedSubject(value)
    \/ \E value \in TimeslotInputs : setSelectedTimeslot(value)
    \/ \E i \in 1..MaxReports : viewRecordDetails(i)
    \/ handleSaveSession
    \/ CloudResolve
    \/ CloudReject
    \/ \E id \in IdInputs : deleteFromHistory(id, TRUE)
    \/ \E id \in Ids(savedReports) : deleteFromHistory(id, FALSE)
    \/ \E confirmed \in BOOLEAN : handleClearHistory(confirmed)
    \/ Tick
    \/ Restart

Spec == Init /\ [][Next]_vars

-----------------------------------------------------------------------------
(* The Session at work on a history of one Report: every Session handler,  *)
(* 'view record details' and save-session, with room for every write.      *)

SessionInit ==
    /\ InitFrom(SessionBlobInputs)
    /\ quota = MaxReports

SessionNext ==
    \/ LoadEffect
    \/ Render
    \/ PersistEffect
    \/ \E value \in DateInputs : setSelectedDate(value)
    \/ \E value \in TeacherInputs : setSelectedTeacherId(value)
    \/ \E value \in SubjectInputs : setSelectedSubject(value)
    \/ \E value \in TimeslotInputs : setSelectedTimeslot(value)
    \/ \E pupilId \in ToggleInputs : toggleAttendance(pupilId)
    \/ \E year \in YearInputs : selectAllInYear(year)
    \/ \E year \in YearInputs : deselectAllInYear(year)
    \/ \E i \in 1..MaxReports : viewRecordDetails(i)
    \/ handleSaveSession
    \/ CloudResolve

SessionSpec == SessionInit /\ [][SessionNext]_vars


-----------------------------------------------------------------------------
(* Properties.                                                             *)

\* A step of handleSaveSession that passed the validation.
SaveAccepted == pc = "idle" /\ pc' = "render" /\ notes' = <<SavedLocallyNote>>

\* C1: save-session is rejected, with the error notification, exactly when
\* teacherId, subject or timeslot is unset; a rejected save queues no update
\* of the collection, schedules no write and leaves the collection and the
\* persisted blob as they were.
C1_SaveRejectedIffIncomplete ==
    [][handleSaveSession =>
        /\ (notes' = <<IncompleteNote>>) <=>
             (selectedTeacherId = "" \/ selectedSubject = ""
                 \/ selectedTimeslot = "")
        /\ notes' # <<IncompleteNote>> =>
             /\ notes' = <<SavedLocallyNote>>
             /\ Len(pendingReports') = Len(savedReports) + 1
        /\ notes' = <<IncompleteNote>> =>
             /\ pc' = "idle"
             /\ UNCHANGED <<savedReports, pendingReports, storage>>]_vars

\* C1 witness: a save rejected for the timeslot alone, with a Report stored
C1_Witness ==
    /\ notes = <<IncompleteNote>>
    /\ selectedTeacherId # ""
    /\ selectedSubject # ""
    /\ selectedTimeslot = ""
    /\ Len(savedReports) = 1
    /\ storage = JSONStringify(savedReports)

\* C2: a handler that queues no update of the collection (every Session
\* handler, also once the Session holds a stored Report's own attendance
\* object) leaves every stored Report, and the persisted blob, as it was.
C2_StoredReportsImmutable ==
    [][pc = "idle" /\ pc' = "idle" =>
        UNCHANGED <<savedReports, pendingReports, storage>>]_vars

\* C2 witness: the Session took the Report of the foreign teacher through
\* 'view record details' and then changed the attendance it was handed
C2_Witness ==
    /\ pc = "idle"
    /\ Len(savedReports) = 1
    /\ savedReports[1] = ForeignReport
    /\ selectedTeacherId = "t99"
    /\ attendanceRef = 0
    /\ "p-1" \in DOMAIN attendance
    /\ ~attendance["p-0"]

\* C3: every Report of the in-memory collection has totalPresent equal to
\* the number of true values of its own attendance map.
C3_TotalPresentIsCount ==
    \A i \in 1..Len(savedReports) :
        savedReports[i].totalPresent = totalPresentOf(savedReports[i].attendance)

\* C4: no two Reports of the collection have the same id.
C4_IdsUnique ==
    \A i, j \in 1..Len(savedReports) :
        savedReports[i].id = savedReports[j].id => i = j

\* C5: once the persist effect of a commit has run, the persisted blob is
\* the in-memory collection; the commit of the load makes the collection
\* what the blob held (empty when it held no array), and afterwards the
\* collection changes only by the commit of an update a handler queued.
C5_BlobReconciled ==
    /\ [](pc = "idle" => storage = JSONStringify(savedReports))
    /\ [][/\ (pc = "render" /\ ~hasLoaded) =>
                IF storage.kind = "array"
                THEN JSONStringify(savedReports') = storage
                ELSE savedReports' = <<>>
          /\ savedReports' # savedReports => (pc = "render" \/ pc' = "mount")
          /\ (pc = "render" /\ hasLoaded) =>
                notes \in { <<SavedLocallyNote>>, <<DeletedNote>>,
                            <<ClearedNote>> }]_vars

\* C5 witness: two Reports added since the load, written to the blob
C5_Witness ==
    /\ pc = "idle"
    /\ Len(savedReports) = 2
    /\ storage = JSONStringify(savedReports)
    /\ storage.items[1].attendance # {}

\* C6: when the write of the blob has failed, the failure is reported, the
\* in-memory collection keeps the new Report and the application runs on.
C6_WriteFailureReported ==
    (hasLoaded /\ WriteFails(savedReports, quota) /\ pc # "effect") =>
        /\ pc = "idle"
        /\ \E i \in 1..Len(notes) : notes[i].type = "error"

\* C7: after the load of a blob that is no report collection (unparseable,
\* the empty string included, or not an array) the collection is empty and the failure was logged.
C7_LoadFailureLogged ==
    (pc = "mount_persist" /\ storage.kind \in {"empty", "corrupt", "object"}) =>
        /\ pendingReports = <<>>
        /\ console # {}

\* C8: an accepted save-session puts the new Report first, followed by the
\* stored Reports in their order, whatever its date; the commit makes that
\* list the collection.
C8_NewReportFirst ==
    [][/\ SaveAccepted =>
            /\ Len(pendingReports') = Len(savedReports) + 1
            /\ pendingReports'[1].id = ToString(now)
            /\ pendingReports'[1].date = selectedDate
            /\ Tail(pendingReports') = savedReports
       /\ pc = "render" => savedReports' = pendingReports]_vars

\* C8 witness: a back-dated Report saved on top of a Report of today
C8_Witness ==
    /\ pc = "idle"
    /\ notes = <<SavedLocallyNote>>
    /\ Len(savedReports) = 2
    /\ savedReports[1].date = <<2024, 12, 31>>
    /\ savedReports[2].date = Today
    /\ savedReports[1].id # savedReports[2].id

\* C9: a confirmed deleteById of an id of the collection removes exactly one
\* Report and keeps the others in their order; of an id that is not in the
\* collection it changes nothing.
C9_DeleteRemovesExactlyOne ==
    [][\A id \in IdInputs :
        deleteFromHistory(id, TRUE) =>
            IF id \in Ids(savedReports)
            THEN \E i \in 1..Len(savedReports) :
                    /\ savedReports[i].id = id
                    /\ pendingReports' =
                         SubSeq(savedReports, 1, i - 1)
                            \o SubSeq(savedReports, i + 1, Len(savedReports))
            ELSE pendingReports' = savedReports]_vars

\* C10: after a confirmed clear the collection is empty, the write of the
\* empty collection does not fail, the blob holds the empty collection, and
\* a load of that blob gives the empty collection.
C10_ClearEmpties ==
    notes = <<ClearedNote>> =>
        /\ pendingReports = <<>>
        /\ pc # "crashed"
        /\ pc \in {"effect", "idle"} => savedReports = <<>>
        /\ pc = "idle" =>
             /\ storage = JSONStringify(<<>>)
             /\ LoadedReports(storage) = <<>>

\* C10 witness: a clear, written to the blob, of a collection that held the
\* Report of the earlier run (the Session still shows its attendance)
C10_Witness ==
    /\ notes = <<ClearedNote>>
    /\ pc = "idle"
    /\ attendance = EarlierReport.attendance
    /\ savedReports = <<>>
    /\ storage = JSONStringify(<<>>)

-----------------------------------------------------------------------------
(* The analysis tab: the statistics derived from savedReports (useMemo).   *)

InvalidDate == <<>>

\* the strings a date input can hand over: a calendar date or the empty string
IsValidDate(date) == date # InvalidDate

IsLeapYear(year) == year % 4 = 0 /\ (year % 100 # 0 \/ year % 400 = 0)

DaysInMonth(year, month) ==
    IF month = 2 THEN (IF IsLeapYear(year) THEN 29 ELSE 28)
    ELSE IF month \in {4, 6, 9, 11} THEN 30 ELSE 31

PreviousDay(date) ==
    IF date[3] > 1 THEN <<date[1], date[2], date[3] - 1>>
    ELSE IF date[2] > 1
         THEN <<date[1], date[2] - 1, DaysInMonth(date[1], date[2] - 1)>>
         ELSE <<date[1] - 1, 12, 31>>

\* The local calendar day of new Date('YYYY-MM-DD'): the string is read as
\* midnight UTC, and the getters answer in local time, so west of Greenwich
\* the instant falls on the evening before.
LocalDay(date, offset) == IF offset < 0 THEN PreviousDay(date) ELSE date

\* new Date(r.date).getFullYear() === year; an invalid date gives NaN
yearIs(date, year, offset) ==
    IsValidDate(date) /\ LocalDay(date, offset)[1] = year

\* new Date(r.date).getMonth() === month, months counted from 0
monthIs(date, month, offset) ==
    IsValidDate(date) /\ LocalDay(date, offset)[2] - 1 = month

filterByMonth(r, year, month, offset) ==
    yearIs(r.date, year, offset) /\ monthIs(r.date, month, offset)

filterByYear(r, year, offset) == yearIs(r.date, year, offset)

\* subReports.reduce((acc, r) => acc + r.totalPresent, 0)
RECURSIVE SumTotalPresent(_)
SumTotalPresent(reports) ==
    IF reports = <<>> THEN 0
    ELSE Head(reports).totalPresent + SumTotalPresent(Tail(reports))

\* Math.round(num / den) for num >= 0 and den > 0: halves go up
MathRound(num, den) == (2 * num + den) \div (2 * den)

\* The odd n below 400 for which the double (n / 200) * 100 lies below n / 2:
\* the quotient n / 200 has no exact double, and its product with 100 is
\* rounded to the double under the half.  For all other odd n the product is
\* n / 2 or the double above it.
HalvesRoundedDown == { 29, 57, 113, 115, 201, 203, 205, 207, 251, 253, 255 }

\* Math.round((present / possible) * 100) in double arithmetic, for
\* possible > 0 and present < 2 * possible.  The division comes first, so a
\* percentage that is exactly a half can come out just under the half and is
\* then rounded down; every other value is rounded as the exact quotient.
RoundedPercentage(present, possible) ==
    LET n == (200 * present) \div possible
    IN  IF (200 * present) % possible = 0 /\ n % 2 = 1
              /\ n \in HalvesRoundedDown
        THEN (n - 1) \div 2
        ELSE MathRound(100 * present, possible)

\* the body of SUBJECTS.map in calculate
SubjectStats(subject, reports) ==
    LET subReports == SelectSeq(reports, LAMBDA r : r.subject = subject)
        totalPresentInSubject == SumTotalPresent(subReports)
        totalPossibleInSubject == Len(subReports) * Cardinality(PUPILS)
    IN  [subject |-> subject,
         totalPresent |-> totalPresentInSubject,
         totalPossible |-> totalPossibleInSubject,
         percentage |-> IF totalPossibleInSubject > 0
                        THEN RoundedPercentage(totalPresentInSubject,
                                               totalPossibleInSubject)
                        ELSE 0,
         sessionCount |-> Len(subReports)]

calculate(reports) ==
    [i \in 1..Len(SUBJECTS) |-> SubjectStats(SUBJECTS[i], reports)]

Stats(reports, year, month, offset) ==
    [monthly |-> calculate(SelectSeq(reports,
                    LAMBDA r : filterByMonth(r, year, month, offset))),
     yearly  |-> calculate(SelectSeq(reports,
                    LAMBDA r : filterByYear(r, year, offset)))]

\* the value of the stats memo in the current state
stats == Stats(savedReports, analyticsYear, analyticsMonth, tz)

\* the options of the year select and of the month select
AnalyticsYearInputs == { 2024, 2025, 2026, 2027 }

AnalyticsMonthInputs == 0..11

setAnalyticsYear(year) ==
    /\ pc = "idle"
    /\ analyticsYear' = year
    /\ notes' = <<>>
    /\ console' = {}
    /\ UNCHANGED <<storage, quota, now, pc, savedReports, hasLoaded,
                   pendingReports, pendingLoaded, session, isSavingToCloud,
                   cloud, analyticsMonth, tz, exporting>>

setAnalyticsMonth(month) ==
    /\ pc = "idle"
    /\ analyticsMonth' = month
    /\ notes' = <<>>
    /\ console' = {}
    /\ UNCHANGED <<storage, quota, now, pc, savedReports, hasLoaded,
                   pendingReports, pendingLoaded, session, isSavingToCloud,
                   cloud, analyticsYear, tz, exporting>>

-----------------------------------------------------------------------------
(* The statistics as a function of the collection, the selected year and    *)
(* month, and the time zone of the browser.                                 *)

\* a map that marks the first 'present' pupils of the roster as present
FirstPresent(present) ==
    [k \in { p.id : p \in { q \in PUPILS : \E i \in 0..(present - 1) :
                                q.id = "p-" \o ToString(i) } } |-> TRUE]

\* the Report that save-session makes of a complete Session at the clock
\* reading ms
SessionReport(ms, date, subject, present) ==
    [id |-> ToString(ms), date |-> date,
     timestamp |-> toLocaleTimeString(ms),
     teacherId |-> "t1", teacherName |-> teacherNameOf("t1"),
     subject |-> subject, timeslot |-> "02:30 - 03:30 pm",
     attendance |-> FirstPresent(present),
     totalPresent |-> totalPresentOf(FirstPresent(present))]

\* sessions on the first and the last days of months and years
StatsReports ==
    << SessionReport(6, <<2025, 3, 31>>, "Matematik", 20),
       SessionReport(5, <<2025, 3, 1>>, "Matematik", 25),
       SessionReport(4, <<2025, 3, 15>>, "Sains", 10),
       SessionReport(3, <<2025, 1, 1>>, "Sejarah", 0),
       SessionReport(2, <<2024, 12, 31>>, "Bahasa Inggeris", 27),
       SessionReport(1, <<2024, 3, 1>>, "Sejarah", 1) >>

\* the elements of seq at the indices of keep, in their order
RECURSIVE Restricted(_, _)
Restricted(seq, keep) ==
    IF seq = <<>> THEN <<>>
    ELSE (IF Len(seq) \in keep THEN Restricted(SubSeq(seq, 1, Len(seq) - 1), keep)
                                      \o <<seq[Len(seq)]>>
          ELSE Restricted(SubSeq(seq, 1, Len(seq) - 1), keep))

\* the Sains sessions of a term: forty sessions in June 2025, the whole
\* class present in twenty-three of them and absent in seventeen
TermReports ==
    [i \in 1..40 |->
        SessionReport(100 + i, <<2025, 6, ((i - 1) % 30) + 1>>,
                      "Sains", IF i <= 23 THEN 27 ELSE 0)]

StatsCollections ==
    { Restricted(StatsReports, keep) : keep \in SUBSET (DOMAIN StatsReports) }
        \cup { TermReports }

TimezoneInputs == { -5, 0, 8 }

\* the program at rest after the load of a collection it wrote earlier
StatsInit ==
    /\ savedReports \in StatsCollections
    /\ pendingReports = savedReports
    /\ storage = JSONStringify(savedReports)
    /\ quota = Len(TermReports)
    /\ now = 1
    /\ pc = "idle"
    /\ hasLoaded = TRUE
    /\ pendingLoaded = TRUE
    /\ selectedDate = Today
    /\ selectedTeacherId = ""
    /\ selectedSubject = ""
    /\ selectedTimeslot = ""
    /\ attendance = EmptyAttendance
    /\ attendanceRef = 0
    /\ isSavingToCloud = FALSE
    /\ cloud = "none"
    /\ notes = <<>>
    /\ console = {}
    /\ analyticsYear = Today[1]
    /\ analyticsMonth = Today[2] - 1
    /\ isExporting = FALSE
    /\ pdf = "none"
    /\ tz \in TimezoneInputs

StatsNext ==
    \/ \E year \in AnalyticsYearInputs : setAnalyticsYear(year)
    \/ \E month \in AnalyticsMonthInputs : setAnalyticsMonth(month)

StatsSpec == StatsInit /\ [][StatsNext]_vars

\* the reports the monthly and the yearly statistics are computed from
FilteredReports(part) ==
    IF part = "monthly"
    THEN SelectSeq(savedReports,
            LAMBDA r : filterByMonth(r, analyticsYear, analyticsMonth, tz))
    ELSE SelectSeq(savedReports,
            LAMBDA r : filterByYear(r, analyticsYear, tz))

\* C11: the calculation returns one entry per subject in the order Sains,
\* Bahasa Inggeris, Matematik, Sejarah; for each subject sessionCount is the
\* number of filtered reports of the subject, totalPresent the sum of their
\* totalPresent, totalPossible sessionCount times 27, and percentage is
\* 100 * totalPresent / totalPossible rounded to the nearest integer (a half
\* goes up), 0 without sessions.
C11_StatsPerSubject ==
    \A part \in {"monthly", "yearly"} :
        LET reports == FilteredReports(part)
            result  == stats[part]
        IN  /\ DOMAIN result = 1..4
            /\ [i \in 1..4 |-> result[i].subject]
                 = <<"Sains", "Bahasa Inggeris", "Matematik", "Sejarah">>
            /\ \A i \in 1..4 :
                 LET mine == { k \in 1..Len(reports) :
                                 reports[k].subject = result[i].subject }
                     marks == { <<k, n>> \in mine \X (1..27) :
                                  n <= reports[k].totalPresent }
                     diff == 100 * result[i].totalPresent
                               - result[i].percentage * result[i].totalPossible
                 IN  /\ result[i].sessionCount = Cardinality(mine)
                     /\ result[i].totalPresent = Cardinality(marks)
                     /\ result[i].totalPossible = 27 * Cardinality(mine)
                     /\ IF mine = {}
                        THEN result[i].percentage = 0
                        ELSE /\ 2 * diff < result[i].totalPossible
                             /\ 2 * diff >= - result[i].totalPossible

\* C12: in every reachable state, for every year and month that can be
\* selected, every entry of the monthly and of the yearly statistics has
\* totalPresent <= totalPossible and a percentage from 0 to 100.
C12_PercentageInRange ==
    \A year \in AnalyticsYearInputs, month \in AnalyticsMonthInputs :
        \A part \in {"monthly", "yearly"} :
            LET result == Stats(savedReports, year, month, tz)[part]
            IN  \A i \in DOMAIN result :
                    /\ result[i].totalPresent <= result[i].totalPossible
                    /\ result[i].percentage \in 0..100

\* C13: in every time zone a Report is among the reports of the monthly
\* statistics exactly when the year and the month of its date field are the
\* selected ones, and among those of the yearly statistics exactly when the
\* year of its date field is the selected year.
C13_FilterByDateField ==
    \A k \in 1..Len(savedReports) :
        LET r == savedReports[k]
        IN  /\ filterByMonth(r, analyticsYear, analyticsMonth, tz)
                 <=> (r.date[1] = analyticsYear /\ r.date[2] = analyticsMonth + 1)
            /\ filterByYear(r, analyticsYear, tz)
                 <=> r.date[1] = analyticsYear

-----------------------------------------------------------------------------
(* The overall yearly average of the analysis tab.                          *)

\* yearly.reduce((acc, s) => acc + s.percentage, 0)
RECURSIVE SumPercentage(_, _)
SumPercentage(yearly, n) ==
    IF n = 0 THEN 0 ELSE yearly[n].percentage + SumPercentage(yearly, n - 1)

\* some(s => s.sessionCount > 0)
\*    ? Math.round(sum / filter(s => s.sessionCount > 0).length || 1) : 0
\* The division binds tighter than ||, so a quotient of 0 is replaced by 1.
overallYearlyAverage(yearly) ==
    LET withSessions == { i \in DOMAIN yearly : yearly[i].sessionCount > 0 }
        sum == SumPercentage(yearly, Len(yearly))
    IN  IF Len(yearly) > 0 /\ withSessions # {}
        THEN (IF sum = 0 THEN 1 ELSE MathRound(sum, Cardinality(withSessions)))
        ELSE 0

\* C14: the overall yearly average is the integer nearest to the mean of
\* the yearly percentages of the subjects that have sessions, and 0 when no
\* subject has a session; so it is 0 when all those percentages are 0.
C14_OverallAverage ==
    LET yearly == stats.yearly
        withSessions == { i \in DOMAIN yearly : yearly[i].sessionCount > 0 }
        points == { <<i, n>> \in withSessions \X (1..100) :
                      n <= yearly[i].percentage }
        average == overallYearlyAverage(yearly)
        diff == Cardinality(points) - average * Cardinality(withSessions)
    IN  IF withSessions = {}
        THEN average = 0
        ELSE /\ 2 * diff <= Cardinality(withSessions)
             /\ 2 * diff >= - Cardinality(withSessions)

-----------------------------------------------------------------------------
(* Save-session and the cloud submission.                                   *)

\* C15: when the cloud submission of a save-session is attempted, the new
\* Report is already in the in-memory collection and in the blob.
C15_LocalBeforeCloud ==
    [][(cloud # "pending" /\ cloud' = "pending") =>
          /\ savedReports' = pendingReports'
          /\ savedReports'[1].id = ToString(now)
          /\ storage' = JSONStringify(savedReports')]_vars

\* C16: the completion of the cloud submission, successful or not, leaves
\* the in-memory collection, the queued collection, the blob and the Session
\* as they are, so the local result of save-session is the same for every
\* outcome; and while the submission is pending a confirmed delete or clear
\* and the Session setters act at once.
C16_CloudOutcomeIndependent ==
    [][/\ (cloud = "pending" /\ cloud' = "none" /\ pc' # "mount") =>
            UNCHANGED <<savedReports, pendingReports, storage, session>>
       /\ (cloud = "pending" /\ handleClearHistory(TRUE)) =>
            (pendingReports' = <<>> /\ cloud' = "pending")
       /\ \A id \in IdInputs :
            (cloud = "pending" /\ deleteFromHistory(id, TRUE)) =>
                /\ id \notin Ids(pendingReports')
                /\ cloud' = "pending"
       /\ \A value \in DateInputs :
            (cloud = "pending" /\ setSelectedDate(value)) =>
                (selectedDate' = value /\ cloud' = "pending")]_vars

\* C16 witness: the Report of a save-session was deleted and the deletion
\* written to the blob while the submission was pending; then the
\* submission failed, and the collection and the blob are still empty
C16_Witness ==
    /\ notes = <<CloudFailedNote>>
    /\ pc = "idle"
    /\ cloud = "none"
    /\ savedReports = <<>>
    /\ storage = JSONStringify(<<>>)

-----------------------------------------------------------------------------
(* The attendance map under the toggle and the year handlers, called with   *)
(* roster ids and with an id that no pupil of the roster has.               *)

UnknownPupilId == "p-99"

AttendanceToggleInputs == { "p-0", "p-3", UnknownPupilId, "constructor" }

AttendanceYearInputs == { 1, 2 }

\* the program at rest after a start without a blob
AttendanceInit ==
    /\ savedReports = <<>>
    /\ pendingReports = <<>>
    /\ storage = JSONStringify(<<>>)
    /\ quota = MaxReports
    /\ now = 1
    /\ pc = "idle"
    /\ hasLoaded = TRUE
    /\ pendingLoaded = TRUE
    /\ selectedDate = Today
    /\ selectedTeacherId = ""
    /\ selectedSubject = ""
    /\ selectedTimeslot = ""
    /\ attendance = EmptyAttendance
    /\ attendanceRef = 0
    /\ isSavingToCloud = FALSE
    /\ cloud = "none"
    /\ notes = <<>>
    /\ console = {}
    /\ analyticsYear = Today[1]
    /\ analyticsMonth = Today[2] - 1
    /\ isExporting = FALSE
    /\ pdf = "none"
    /\ tz = 8

AttendanceNext ==
    \/ \E pupilId \in AttendanceToggleInputs : toggleAttendance(pupilId)
    \/ \E year \in AttendanceYearInputs : selectAllInYear(year)
    \/ \E year \in AttendanceYearInputs : deselectAllInYear(year)

AttendanceSpec == AttendanceInit /\ [][AttendanceNext]_vars

\* C17: toggleAttendance with an id that is not in the roster signals an
\* error and leaves the map unchanged, so the keys of the attendance map are
\* always ids of roster pupils.
C17_UnknownPupilRejected ==
    [][/\ \A pupilId \in AttendanceToggleInputs \ PupilIds :
            toggleAttendance(pupilId) =>
                /\ attendance' = attendance
                /\ \E i \in 1..Len(notes') : notes'[i].type = "error"
       /\ DOMAIN attendance' \subseteq PupilIds]_vars

\* C20: for every pupil p of the roster, a toggle of p inverts the flag of
\* p (a missing key counts as absent, so an unset pupil becomes present), a
\* second toggle of p gives the original flag again, and the flags of all
\* other pupils stay as they are.
C20_ToggleInvolution ==
    \A p \in PupilIds :
        LET once  == Toggled(attendance, p)
            twice == Toggled(once, p)
        IN  /\ IsPresent(once, p) = ~IsPresent(attendance, p)
            /\ p \notin DOMAIN attendance => (p \in DOMAIN once /\ once[p])
            /\ IsPresent(twice, p) = IsPresent(attendance, p)
            /\ \A q \in (PupilIds \cup DOMAIN attendance) \ {p} :
                 /\ IsPresent(once, q) = IsPresent(attendance, q)
                 /\ IsPresent(twice, q) = IsPresent(attendance, q)

\* C20 witness: p-0 toggled twice (its key is there and false) next to the
\* pupils of year 2, who are all present
C20_Witness ==
    /\ pc = "idle"
    /\ "p-0" \in DOMAIN attendance
    /\ ~attendance["p-0"]
    /\ "p-1" \notin DOMAIN attendance
    /\ totalPresentOf(attendance) = 6
    /\ DOMAIN attendance \subseteq PupilIds

-----------------------------------------------------------------------------
(* Save-session and the fields of the Session.                              *)

\* C18: save-session is rejected with an error and queues no Report when the
\* teacher id of the Session is not in the roster, so the Report of an
\* accepted save-session carries the roster name of its teacher id.
C18_UnknownTeacherRejected ==
    [][handleSaveSession =>
          IF \E t \in TEACHERS : t.id = selectedTeacherId
          THEN SaveAccepted =>
                 \E t \in TEACHERS : /\ t.id = pendingReports'[1].teacherId
                                     /\ t.name = pendingReports'[1].teacherName
          ELSE /\ pendingReports' = pendingReports
               /\ \E i \in 1..Len(notes') : notes'[i].type = "error"]_vars

\* what the date input can hand to setSelectedDate: a date, or the empty
\* string of a cleared or half-typed input
DateEntryInputs == DateInputs \cup { InvalidDate }

DateInit == InitFrom({ NoBlob }) /\ quota = MaxReports

DateNext ==
    \/ LoadEffect
    \/ Render
    \/ PersistEffect
    \/ \E value \in DateEntryInputs : setSelectedDate(value)
    \/ \E value \in TeacherInputs : setSelectedTeacherId(value)
    \/ \E value \in SubjectInputs : setSelectedSubject(value)
    \/ \E value \in TimeslotInputs : setSelectedTimeslot(value)
    \/ handleSaveSession
    \/ CloudResolve
    \/ Tick

DateSpec == DateInit /\ [][DateNext]_vars

\* C19: the date of the Session is a calendar date in every reachable state,
\* whatever setDate calls were made; so every Report of the collection has a
\* calendar date and is counted by the yearly filter of the year of its date.
C19_DateAlwaysValid ==
    /\ IsValidDate(selectedDate)
    /\ \A k \in 1..Len(savedReports) :
         /\ IsValidDate(savedReports[k].date)
         /\ filterByYear(savedReports[k], savedReports[k].date[1], tz)

-----------------------------------------------------------------------------
(* The year handlers.                                                       *)

\* the years of the roster
RosterYears == { p.year : p \in PUPILS }

\* C21: for every year y of the roster and both values of present, the map
\* of selectAllInYear / deselectAllInYear has the flag present for every
\* pupil of year y and the former flag for every other key; a second
\* application gives the same map as the first; and select followed by
\* deselect of y leaves every pupil of year y absent.
C21_SetAllInYearIdempotent ==
    \A y \in RosterYears, present \in BOOLEAN :
        LET once  == SetAllInYear(attendance, y, present)
            twice == SetAllInYear(once, y, present)
            reset == SetAllInYear(SetAllInYear(attendance, y, TRUE), y, FALSE)
        IN  /\ \A p \in PUPILS :
                 IF p.year = y
                 THEN /\ p.id \in DOMAIN once
                      /\ once[p.id] = present
                      /\ ~IsPresent(reset, p.id)
                 ELSE /\ IsPresent(once, p.id) = IsPresent(attendance, p.id)
                      /\ IsPresent(reset, p.id) = IsPresent(attendance, p.id)
            /\ \A k \in DOMAIN attendance \ PupilIds :
                 k \in DOMAIN once /\ once[k] = attendance[k]
            /\ twice = once

\* C21 witness: year 1 was deselected last (its three pupils have keys and
\* are absent) while the six pupils of year 2, selected before, are present
C21_Witness ==
    /\ pc = "idle"
    /\ notes = <<DeselectedYearNote(1)>>
    /\ \A p \in PUPILS : p.year = 1 => (p.id \in DOMAIN attendance /\ ~attendance[p.id])
    /\ \A p \in PUPILS : p.year = 2 => IsPresent(attendance, p.id)
    /\ totalPresentOf(attendance) = 6

-----------------------------------------------------------------------------
(* The hasLoaded gate and the isSavingToCloud flag.                         *)

\* C22: the blob is not written while hasLoaded is false, so the history an
\* earlier run left is not replaced by the initial empty collection; every
\* write stores the committed collection; and the first write after the
\* start stores what the load took from the blob, which for an array blob is
\* the blob itself.
C22_NoWriteBeforeLoad ==
    [][/\ ~hasLoaded => storage' = storage
       /\ storage' # storage => storage' = JSONStringify(savedReports)
       /\ (pc = "effect" /\ notes = <<>> /\ pc' = "idle") =>
            /\ savedReports = LoadedReports(storage)
            /\ storage' = JSONStringify(LoadedReports(storage))
            /\ storage.kind = "array" => storage' = storage]_vars

\* C22 witness: the history of an earlier run, loaded and written back by
\* the first persist effect after the start
C22_Witness ==
    /\ pc = "idle"
    /\ hasLoaded
    /\ notes = <<>>
    /\ now = 1
    /\ savedReports = <<EarlierReport>>
    /\ storage = JSONStringify(<<EarlierReport>>)

\* Save-session and the PDF export with both outcomes of their awaited
\* calls, on a device whose storage may or may not have room for one more
\* Report.
SavingInit == InitFrom({ NoBlob, JSONStringify(<<EarlierReport>>) })

SavingNext ==
    \/ LoadEffect
    \/ Render
    \/ PersistEffect
    \/ \E value \in TeacherInputs : setSelectedTeacherId(value)
    \/ \E value \in SubjectInputs : setSelectedSubject(value)
    \/ \E value \in TimeslotInputs : setSelectedTimeslot(value)
    \/ handleSaveSession
    \/ CloudResolve
    \/ CloudReject
    \/ exportPDF
    \/ ExportResolve
    \/ ExportReject

\* React runs the effects and commits the queued updates, and the fetch
\* settles one way or the other.
SavingFairness ==
    /\ WF_vars(LoadEffect)
    /\ WF_vars(Render)
    /\ WF_vars(PersistEffect)
    /\ WF_vars(CloudResolve \/ CloudReject)

SavingSpec == SavingInit /\ [][SavingNext]_vars /\ SavingFairness

\* C23: a save-session that passes the validation sets isSavingToCloud and
\* starts the submission, and the flag is false again some time after,
\* whether the submission resolves or throws; a rejected save-session leaves
\* the flag false and starts no submission.
C23_SavingFlagResets ==
    /\ [][handleSaveSession =>
            IF selectedTeacherId = "" \/ selectedSubject = ""
                 \/ selectedTimeslot = ""
            THEN ~isSavingToCloud' /\ cloud' = "none"
            ELSE isSavingToCloud' /\ cloud' = "pending"]_vars
    /\ (isSavingToCloud ~> ~isSavingToCloud)

=============================================================================
